---- MODULE Spec2Model ----
(***************************************************************************)
(* git_history_gen/cli.py: the unified-diff change extractor iter_changes  *)
(* as a state machine that scans one diff line per step, and write_history *)
(* as the loop over the commits that calls it and lays out the change log. *)
(*                                                                         *)
(* A Python str is a sequence of one-character strings, so that            *)
(* startswith, slicing, split, strip and int() are computed as Python      *)
(* computes them.  An optional value (None or a value) is a sequence of    *)
(* length 0 or 1: None is <<>> and the value v is <<v>>.                   *)
(***************************************************************************)
EXTENDS Integers, Sequences, FiniteSets, TLC

VARIABLES
    doc,        \* the diff handed to iter_changes: the names of its sections, in order
    pc,         \* "idle": no call active; "scan": inside the for loop; "raised": an exception escaped
    pos,        \* index of the next raw line of the for loop
    cur_file,   \* local cur_file: None or the path
    old_line,   \* local old_line: None or an integer
    new_line,   \* local new_line: None or an integer
    out,        \* the records the running call has yielded so far
    last,       \* None, or the full output of the most recent finished call
    commits,    \* write_history: the commits handed in, by name, in order
    ci,         \* write_history: index of the commit the for loop of line 150 is at
    hpc,        \* write_history: "start", "loop", "diff", "changes", "files", "done" or "raised"
    hist_out,   \* write_history: its list out, the items of the change log so far
    by_file,    \* write_history: the dict by_file, as its entries in insertion order
    fi,         \* write_history: index of the entry the for loop of line 162 is at
    written     \* None, or what write_text has put into the output file

\* the state of write_history
hvars == <<commits, ci, hpc, hist_out, by_file, fi, written>>

vars == <<doc, pc, pos, cur_file, old_line, new_line, out, last,
          commits, ci, hpc, hist_out, by_file, fi, written>>

----------------------------------------------------------------------------
(* Bounds of the model. *)

MaxSections == 3

MaxCommits == 3

----------------------------------------------------------------------------
(* Optional values and Python str primitives. *)

None == <<>>

Some(v) == <<v>>

IsNone(o) == Len(o) = 0

Get(o) == o[1]

Drop(s, n) == IF n >= Len(s) THEN <<>> ELSE SubSeq(s, n + 1, Len(s))

StartsWith(s, p) == Len(p) <= Len(s) /\ SubSeq(s, 1, Len(p)) = p

\* s.find(p): the least index (from 1) where p occurs in s, 0 when it does not
Find(s, p) ==
    LET hits == { i \in 1..(Len(s) - Len(p) + 1) : SubSeq(s, i, i + Len(p) - 1) = p }
    IN  IF hits = {} THEN 0 ELSE CHOOSE i \in hits : \A j \in hits : i <= j

Contains(s, p) == Find(s, p) # 0

\* the backtick character, which a TLA+ string cannot hold: one element of a str
BACKTICK == "BACKTICK"

\* A character outside printable ASCII that has no escape of its own is the
\* element "U+" followed by its code point in hexadecimal, as "U+00A0".

\* the characters int() skips at both ends of its argument
IntWhitespace ==
    {
      "\t", "\n", "U+000B", "\f", "\r", " ", "U+0085", "U+00A0", "U+1680", "U+2000",
      "U+2001", "U+2002", "U+2003", "U+2004", "U+2005", "U+2006", "U+2007", "U+2008",
      "U+2009", "U+200A", "U+2028", "U+2029", "U+202F", "U+205F", "U+3000"
    }

\* the characters c with c.isspace(), which str.strip() removes
Whitespace == IntWhitespace \cup {"U+001C", "U+001D", "U+001E", "U+001F"}

\* s without the characters of the set chars at its two ends
RECURSIVE StripOf(_, _)
StripOf(s, chars) ==
    IF s # <<>> /\ Head(s) \in chars THEN StripOf(Tail(s), chars)
    ELSE IF s # <<>> /\ s[Len(s)] \in chars THEN StripOf(SubSeq(s, 1, Len(s) - 1), chars)
    ELSE s

RECURSIVE LStrip(_)
LStrip(s) == IF s # <<>> /\ Head(s) \in Whitespace THEN LStrip(Tail(s)) ELSE s

RECURSIVE RStrip(_)
RStrip(s) ==
    IF s # <<>> /\ s[Len(s)] \in Whitespace THEN RStrip(SubSeq(s, 1, Len(s) - 1)) ELSE s

Strip(s) == RStrip(LStrip(s))

RECURSIVE RStripNewline(_)
RStripNewline(s) ==
    IF s # <<>> /\ s[Len(s)] = "\n" THEN RStripNewline(SubSeq(s, 1, Len(s) - 1)) ELSE s

\* s.split(sep): the pieces of s between the non-overlapping occurrences of sep
RECURSIVE Split(_, _)
Split(s, sep) ==
    LET i == Find(s, sep)
    IN  IF i = 0 THEN <<s>>
        ELSE <<SubSeq(s, 1, i - 1)>> \o Split(Drop(s, i + Len(sep) - 1), sep)

Digits == <<"0", "1", "2", "3", "4", "5", "6", "7", "8", "9">>

\* the decimal digits of the other scripts that int() reads, by script, from 0 to 9
\* (the characters of category Nd of Unicode 14, the table of Python 3.11)
ScriptDigits ==
    <<
      <<"U+0660", "U+0661", "U+0662", "U+0663", "U+0664", "U+0665", "U+0666", "U+0667", "U+0668", "U+0669">>,
      <<"U+06F0", "U+06F1", "U+06F2", "U+06F3", "U+06F4", "U+06F5", "U+06F6", "U+06F7", "U+06F8", "U+06F9">>,
      <<"U+07C0", "U+07C1", "U+07C2", "U+07C3", "U+07C4", "U+07C5", "U+07C6", "U+07C7", "U+07C8", "U+07C9">>,
      <<"U+0966", "U+0967", "U+0968", "U+0969", "U+096A", "U+096B", "U+096C", "U+096D", "U+096E", "U+096F">>,
      <<"U+09E6", "U+09E7", "U+09E8", "U+09E9", "U+09EA", "U+09EB", "U+09EC", "U+09ED", "U+09EE", "U+09EF">>,
      <<"U+0A66", "U+0A67", "U+0A68", "U+0A69", "U+0A6A", "U+0A6B", "U+0A6C", "U+0A6D", "U+0A6E", "U+0A6F">>,
      <<"U+0AE6", "U+0AE7", "U+0AE8", "U+0AE9", "U+0AEA", "U+0AEB", "U+0AEC", "U+0AED", "U+0AEE", "U+0AEF">>,
      <<"U+0B66", "U+0B67", "U+0B68", "U+0B69", "U+0B6A", "U+0B6B", "U+0B6C", "U+0B6D", "U+0B6E", "U+0B6F">>,
      <<"U+0BE6", "U+0BE7", "U+0BE8", "U+0BE9", "U+0BEA", "U+0BEB", "U+0BEC", "U+0BED", "U+0BEE", "U+0BEF">>,
      <<"U+0C66", "U+0C67", "U+0C68", "U+0C69", "U+0C6A", "U+0C6B", "U+0C6C", "U+0C6D", "U+0C6E", "U+0C6F">>,
      <<"U+0CE6", "U+0CE7", "U+0CE8", "U+0CE9", "U+0CEA", "U+0CEB", "U+0CEC", "U+0CED", "U+0CEE", "U+0CEF">>,
      <<"U+0D66", "U+0D67", "U+0D68", "U+0D69", "U+0D6A", "U+0D6B", "U+0D6C", "U+0D6D", "U+0D6E", "U+0D6F">>,
      <<"U+0DE6", "U+0DE7", "U+0DE8", "U+0DE9", "U+0DEA", "U+0DEB", "U+0DEC", "U+0DED", "U+0DEE", "U+0DEF">>,
      <<"U+0E50", "U+0E51", "U+0E52", "U+0E53", "U+0E54", "U+0E55", "U+0E56", "U+0E57", "U+0E58", "U+0E59">>,
      <<"U+0ED0", "U+0ED1", "U+0ED2", "U+0ED3", "U+0ED4", "U+0ED5", "U+0ED6", "U+0ED7", "U+0ED8", "U+0ED9">>,
      <<"U+0F20", "U+0F21", "U+0F22", "U+0F23", "U+0F24", "U+0F25", "U+0F26", "U+0F27", "U+0F28", "U+0F29">>,
      <<"U+1040", "U+1041", "U+1042", "U+1043", "U+1044", "U+1045", "U+1046", "U+1047", "U+1048", "U+1049">>,
      <<"U+1090", "U+1091", "U+1092", "U+1093", "U+1094", "U+1095", "U+1096", "U+1097", "U+1098", "U+1099">>,
      <<"U+17E0", "U+17E1", "U+17E2", "U+17E3", "U+17E4", "U+17E5", "U+17E6", "U+17E7", "U+17E8", "U+17E9">>,
      <<"U+1810", "U+1811", "U+1812", "U+1813", "U+1814", "U+1815", "U+1816", "U+1817", "U+1818", "U+1819">>,
      <<"U+1946", "U+1947", "U+1948", "U+1949", "U+194A", "U+194B", "U+194C", "U+194D", "U+194E", "U+194F">>,
      <<"U+19D0", "U+19D1", "U+19D2", "U+19D3", "U+19D4", "U+19D5", "U+19D6", "U+19D7", "U+19D8", "U+19D9">>,
      <<"U+1A80", "U+1A81", "U+1A82", "U+1A83", "U+1A84", "U+1A85", "U+1A86", "U+1A87", "U+1A88", "U+1A89">>,
      <<"U+1A90", "U+1A91", "U+1A92", "U+1A93", "U+1A94", "U+1A95", "U+1A96", "U+1A97", "U+1A98", "U+1A99">>,
      <<"U+1B50", "U+1B51", "U+1B52", "U+1B53", "U+1B54", "U+1B55", "U+1B56", "U+1B57", "U+1B58", "U+1B59">>,
      <<"U+1BB0", "U+1BB1", "U+1BB2", "U+1BB3", "U+1BB4", "U+1BB5", "U+1BB6", "U+1BB7", "U+1BB8", "U+1BB9">>,
      <<"U+1C40", "U+1C41", "U+1C42", "U+1C43", "U+1C44", "U+1C45", "U+1C46", "U+1C47", "U+1C48", "U+1C49">>,
      <<"U+1C50", "U+1C51", "U+1C52", "U+1C53", "U+1C54", "U+1C55", "U+1C56", "U+1C57", "U+1C58", "U+1C59">>,
      <<"U+A620", "U+A621", "U+A622", "U+A623", "U+A624", "U+A625", "U+A626", "U+A627", "U+A628", "U+A629">>,
      <<"U+A8D0", "U+A8D1", "U+A8D2", "U+A8D3", "U+A8D4", "U+A8D5", "U+A8D6", "U+A8D7", "U+A8D8", "U+A8D9">>,
      <<"U+A900", "U+A901", "U+A902", "U+A903", "U+A904", "U+A905", "U+A906", "U+A907", "U+A908", "U+A909">>,
      <<"U+A9D0", "U+A9D1", "U+A9D2", "U+A9D3", "U+A9D4", "U+A9D5", "U+A9D6", "U+A9D7", "U+A9D8", "U+A9D9">>,
      <<"U+A9F0", "U+A9F1", "U+A9F2", "U+A9F3", "U+A9F4", "U+A9F5", "U+A9F6", "U+A9F7", "U+A9F8", "U+A9F9">>,
      <<"U+AA50", "U+AA51", "U+AA52", "U+AA53", "U+AA54", "U+AA55", "U+AA56", "U+AA57", "U+AA58", "U+AA59">>,
      <<"U+ABF0", "U+ABF1", "U+ABF2", "U+ABF3", "U+ABF4", "U+ABF5", "U+ABF6", "U+ABF7", "U+ABF8", "U+ABF9">>,
      <<"U+FF10", "U+FF11", "U+FF12", "U+FF13", "U+FF14", "U+FF15", "U+FF16", "U+FF17", "U+FF18", "U+FF19">>,
      <<"U+104A0", "U+104A1", "U+104A2", "U+104A3", "U+104A4", "U+104A5", "U+104A6", "U+104A7", "U+104A8", "U+104A9">>,
      <<"U+10D30", "U+10D31", "U+10D32", "U+10D33", "U+10D34", "U+10D35", "U+10D36", "U+10D37", "U+10D38", "U+10D39">>,
      <<"U+11066", "U+11067", "U+11068", "U+11069", "U+1106A", "U+1106B", "U+1106C", "U+1106D", "U+1106E", "U+1106F">>,
      <<"U+110F0", "U+110F1", "U+110F2", "U+110F3", "U+110F4", "U+110F5", "U+110F6", "U+110F7", "U+110F8", "U+110F9">>,
      <<"U+11136", "U+11137", "U+11138", "U+11139", "U+1113A", "U+1113B", "U+1113C", "U+1113D", "U+1113E", "U+1113F">>,
      <<"U+111D0", "U+111D1", "U+111D2", "U+111D3", "U+111D4", "U+111D5", "U+111D6", "U+111D7", "U+111D8", "U+111D9">>,
      <<"U+112F0", "U+112F1", "U+112F2", "U+112F3", "U+112F4", "U+112F5", "U+112F6", "U+112F7", "U+112F8", "U+112F9">>,
      <<"U+11450", "U+11451", "U+11452", "U+11453", "U+11454", "U+11455", "U+11456", "U+11457", "U+11458", "U+11459">>,
      <<"U+114D0", "U+114D1", "U+114D2", "U+114D3", "U+114D4", "U+114D5", "U+114D6", "U+114D7", "U+114D8", "U+114D9">>,
      <<"U+11650", "U+11651", "U+11652", "U+11653", "U+11654", "U+11655", "U+11656", "U+11657", "U+11658", "U+11659">>,
      <<"U+116C0", "U+116C1", "U+116C2", "U+116C3", "U+116C4", "U+116C5", "U+116C6", "U+116C7", "U+116C8", "U+116C9">>,
      <<"U+11730", "U+11731", "U+11732", "U+11733", "U+11734", "U+11735", "U+11736", "U+11737", "U+11738", "U+11739">>,
      <<"U+118E0", "U+118E1", "U+118E2", "U+118E3", "U+118E4", "U+118E5", "U+118E6", "U+118E7", "U+118E8", "U+118E9">>,
      <<"U+11950", "U+11951", "U+11952", "U+11953", "U+11954", "U+11955", "U+11956", "U+11957", "U+11958", "U+11959">>,
      <<"U+11C50", "U+11C51", "U+11C52", "U+11C53", "U+11C54", "U+11C55", "U+11C56", "U+11C57", "U+11C58", "U+11C59">>,
      <<"U+11D50", "U+11D51", "U+11D52", "U+11D53", "U+11D54", "U+11D55", "U+11D56", "U+11D57", "U+11D58", "U+11D59">>,
      <<"U+11DA0", "U+11DA1", "U+11DA2", "U+11DA3", "U+11DA4", "U+11DA5", "U+11DA6", "U+11DA7", "U+11DA8", "U+11DA9">>,
      <<"U+16A60", "U+16A61", "U+16A62", "U+16A63", "U+16A64", "U+16A65", "U+16A66", "U+16A67", "U+16A68", "U+16A69">>,
      <<"U+16AC0", "U+16AC1", "U+16AC2", "U+16AC3", "U+16AC4", "U+16AC5", "U+16AC6", "U+16AC7", "U+16AC8", "U+16AC9">>,
      <<"U+16B50", "U+16B51", "U+16B52", "U+16B53", "U+16B54", "U+16B55", "U+16B56", "U+16B57", "U+16B58", "U+16B59">>,
      <<"U+1D7CE", "U+1D7CF", "U+1D7D0", "U+1D7D1", "U+1D7D2", "U+1D7D3", "U+1D7D4", "U+1D7D5", "U+1D7D6", "U+1D7D7">>,
      <<"U+1D7D8", "U+1D7D9", "U+1D7DA", "U+1D7DB", "U+1D7DC", "U+1D7DD", "U+1D7DE", "U+1D7DF", "U+1D7E0", "U+1D7E1">>,
      <<"U+1D7E2", "U+1D7E3", "U+1D7E4", "U+1D7E5", "U+1D7E6", "U+1D7E7", "U+1D7E8", "U+1D7E9", "U+1D7EA", "U+1D7EB">>,
      <<"U+1D7EC", "U+1D7ED", "U+1D7EE", "U+1D7EF", "U+1D7F0", "U+1D7F1", "U+1D7F2", "U+1D7F3", "U+1D7F4", "U+1D7F5">>,
      <<"U+1D7F6", "U+1D7F7", "U+1D7F8", "U+1D7F9", "U+1D7FA", "U+1D7FB", "U+1D7FC", "U+1D7FD", "U+1D7FE", "U+1D7FF">>,
      <<"U+1E140", "U+1E141", "U+1E142", "U+1E143", "U+1E144", "U+1E145", "U+1E146", "U+1E147", "U+1E148", "U+1E149">>,
      <<"U+1E2F0", "U+1E2F1", "U+1E2F2", "U+1E2F3", "U+1E2F4", "U+1E2F5", "U+1E2F6", "U+1E2F7", "U+1E2F8", "U+1E2F9">>,
      <<"U+1E950", "U+1E951", "U+1E952", "U+1E953", "U+1E954", "U+1E955", "U+1E956", "U+1E957", "U+1E958", "U+1E959">>,
      <<"U+1FBF0", "U+1FBF1", "U+1FBF2", "U+1FBF3", "U+1FBF4", "U+1FBF5", "U+1FBF6", "U+1FBF7", "U+1FBF8", "U+1FBF9">>
    >>

DigitSet ==
    { Digits[i] : i \in 1..10 }
    \cup UNION { { ScriptDigits[r][i] : i \in 1..10 } : r \in 1..Len(ScriptDigits) }

DigitValue(ch) ==
    (CHOOSE i \in 1..10 :
        Digits[i] = ch \/ \E r \in 1..Len(ScriptDigits) : ScriptDigits[r][i] = ch) - 1

\* sys.int_max_str_digits: int() refuses a decimal string with more digits
MaxStrDigits == 4300

RECURSIVE DecimalValue(_, _)
DecimalValue(s, acc) ==
    IF s = <<>> THEN acc
    ELSE IF Head(s) = "_" THEN DecimalValue(Tail(s), acc)
    ELSE DecimalValue(Tail(s), 10 * acc + DigitValue(Head(s)))

\* int(s): [ok |-> FALSE] where Python raises ValueError
IntOf(s) ==
    LET t == StripOf(s, IntWhitespace)
        signed == t # <<>> /\ Head(t) \in {"+", "-"}
        body == IF signed THEN Tail(t) ELSE t
        wellformed ==
            /\ body # <<>>
            /\ \A i \in 1..Len(body) : body[i] \in DigitSet \cup {"_"}
            /\ body[1] # "_"
            /\ body[Len(body)] # "_"
            /\ \A i \in 1..(Len(body) - 1) : ~(body[i] = "_" /\ body[i + 1] = "_")
            /\ Cardinality({ i \in 1..Len(body) : body[i] # "_" }) <= MaxStrDigits
        magnitude == DecimalValue(body, 0)
    IN  IF ~wellformed THEN [ok |-> FALSE, val |-> 0]
        ELSE [ok |-> TRUE,
              val |-> IF signed /\ Head(t) = "-" THEN 0 - magnitude ELSE magnitude]

----------------------------------------------------------------------------
(* The string literals of iter_changes. *)

DIFF_GIT == <<"d","i","f","f"," ","-","-","g","i","t"," ">>

NEW_PATH == <<"+","+","+"," ">>

OLD_PATH == <<"-","-","-"," ">>

BINARY_FILES == <<"B","i","n","a","r","y"," ","f","i","l","e","s">>

GIT_BINARY_PATCH == <<"G","I","T"," ","b","i","n","a","r","y"," ","p","a","t","c","h">>

HUNK == <<"@","@"," ">>

HUNK_DELIM == <<"@","@">>

NO_NEWLINE ==
    <<"\\"," ","N","o"," ","n","e","w","l","i","n","e"," ","a","t"," ",
      "e","n","d"," ","o","f"," ","f","i","l","e">>

B_PREFIX == <<"b","/">>

----------------------------------------------------------------------------
(* iter_changes, line by line.  A scan state st is the record of the locals *)
(* cur_file, old_line, new_line, the records yielded so far (out) and exc: *)
(* whether an exception has left the generator.                             *)

\* lines 98-102: the two start numbers of a hunk header; ok is FALSE where the
\* try block raises (IndexError, ValueError)
ParseHunkHeader(line) ==
    LET between == Split(line, HUNK_DELIM)
        header == IF Len(between) >= 2 THEN Strip(between[2]) ELSE <<>>
        sides == Split(header, <<" ">>)
        left == sides[1]
        right == IF Len(sides) = 2 THEN sides[2] ELSE <<>>
        old_start == IntOf(Drop(Split(left, <<",">>)[1], 1))
        new_start == IntOf(Drop(Split(right, <<",">>)[1], 1))
    IN  IF Len(between) >= 2 /\ Len(sides) = 2 /\ old_start.ok /\ new_start.ok
        THEN [ok |-> TRUE, old_start |-> old_start.val, new_start |-> new_start.val]
        ELSE [ok |-> FALSE, old_start |-> 0, new_start |-> 0]

\* line 81
IsFileHeader(line) == StartsWith(line, DIFF_GIT)

\* line 84
IsNewPathHeader(line) == StartsWith(line, NEW_PATH)

\* line 88
IsOldPathHeader(line) == StartsWith(line, OLD_PATH)

\* line 92
IsBinaryMarker(line) == Contains(line, BINARY_FILES) \/ StartsWith(line, GIT_BINARY_PATCH)

\* line 97
IsHunkHeader(line) == StartsWith(line, HUNK)

\* Attributable that forgets to look at cur_file
AttributableWithoutFile(st) == ~IsNone(st.old_line) /\ ~IsNone(st.new_line)

\* line 109, negated: the line can be attributed to a file and a line number
Attributable(st) ==
    ~IsNone(st.cur_file) /\ ~IsNone(st.old_line) /\ ~IsNone(st.new_line)

\* IsBlankOrNoNewline that knows the empty line only
IsBlankOnly(line) == line = <<>>

\* line 111
IsBlankOrNoNewline(line) == line = <<>> \/ StartsWith(line, NO_NEWLINE)

\* the branch of the loop body that handles the line, in the order of the code
Classify(st, line) ==
    IF IsFileHeader(line) THEN "file_header"
    ELSE IF IsNewPathHeader(line) THEN "new_path"
    ELSE IF IsOldPathHeader(line) THEN "old_path"
    ELSE IF IsBinaryMarker(line) THEN "binary"
    ELSE IF IsHunkHeader(line) THEN "hunk"
    ELSE IF ~Attributable(st) THEN "unattributed"
    ELSE IF IsBlankOrNoNewline(line) THEN "blank"
    ELSE IF StartsWith(line, <<"+">>) THEN "add"
    ELSE IF StartsWith(line, <<"-">>) THEN "del"
    ELSE "context"

\* lines 81-83
OnFileHeader(st) == [st EXCEPT !.cur_file = None]

\* PathOfNewFile that keeps a path without the b/ prefix as it is
PathOfNewFileUnprefixed(line) ==
    LET path == Drop(line, 4)
    IN  IF StartsWith(path, B_PREFIX) THEN Some(Drop(path, 2)) ELSE Some(path)

\* lines 85-86
PathOfNewFile(line) ==
    LET path == Drop(line, 4)
    IN  IF StartsWith(path, B_PREFIX) THEN Some(Drop(path, 2)) ELSE None

\* lines 84-87
OnNewPathHeader(st, line) == [st EXCEPT !.cur_file = PathOfNewFile(line)]

\* lines 88-89
OnOldPathHeader(st) == st

\* OnBinaryMarker that resets nothing
OnBinaryMarkerKeepsFile(st) == st

\* lines 92-94
OnBinaryMarker(st) == [st EXCEPT !.cur_file = None]

\* OnHunkHeader without the try/except of lines 98 and 105: the error leaves the generator
OnHunkHeaderUncaught(st, line) ==
    LET h == ParseHunkHeader(line)
    IN  IF h.ok
        THEN [st EXCEPT !.old_line = Some(h.old_start), !.new_line = Some(h.new_start)]
        ELSE [st EXCEPT !.exc = TRUE]

\* lines 97-107
OnHunkHeader(st, line) ==
    LET h == ParseHunkHeader(line)
    IN  IF h.ok
        THEN [st EXCEPT !.old_line = Some(h.old_start), !.new_line = Some(h.new_start)]
        ELSE [st EXCEPT !.old_line = None, !.new_line = None]

\* lines 109-112
OnDropped(st) == st

\* Yield that hands the newest record over first
YieldFirst(records, rec) == <<rec>> \o records

\* a yield: the record goes to the end of what the caller has received
Yield(records, rec) == Append(records, rec)

\* None + 1 raises TypeError
Incr(st, counter) ==
    IF IsNone(counter) THEN [val |-> None, exc |-> TRUE]
    ELSE [val |-> Some(Get(counter) + 1), exc |-> st.exc]

\* line 115: the record of an added line is handed to the consumer; the
\* generator stays suspended at this yield until it is asked for the next record
AddRecord(st, line) ==
    LET rec == [file |-> st.cur_file, line |-> st.new_line, type |-> "add",
                text |-> Drop(line, 1)]
    IN  [st EXCEPT !.out = Yield(st.out, rec)]

\* line 116: what the generator does first when it is resumed after line 115
AfterAdd(st) ==
    LET n == Incr(st, st.new_line)
    IN  [st EXCEPT !.new_line = n.val, !.exc = n.exc]

\* lines 114-116, for a consumer that asks for the next record at once
OnAdd(st, line) == AfterAdd(AddRecord(st, line))

\* line 118: the record of a removed line is handed to the consumer
DelRecord(st, line) ==
    LET rec == [file |-> st.cur_file, line |-> st.old_line, type |-> "del",
                text |-> Drop(line, 1)]
    IN  [st EXCEPT !.out = Yield(st.out, rec)]

\* AfterDel that advances the counter of the new side
AfterDelOnNewSide(st) ==
    LET n == Incr(st, st.new_line)
    IN  [st EXCEPT !.new_line = n.val, !.exc = n.exc]

\* line 119: what the generator does first when it is resumed after line 118
AfterDel(st) ==
    LET n == Incr(st, st.old_line)
    IN  [st EXCEPT !.old_line = n.val, !.exc = n.exc]

\* lines 117-119, for a consumer that asks for the next record at once
OnDel(st, line) == AfterDel(DelRecord(st, line))

\* OnContext that advances the new side only
OnContextNewSideOnly(st) ==
    LET n == Incr(st, st.new_line)
    IN  [st EXCEPT !.new_line = n.val, !.exc = n.exc]

\* lines 120-123
OnContext(st) ==
    LET o == Incr(st, st.old_line)
        n == Incr(st, st.new_line)
    IN  [st EXCEPT !.old_line = o.val, !.new_line = n.val, !.exc = o.exc \/ n.exc]

\* lines 77-123: one iteration of the for loop on the raw line
LoopBody(st, raw) ==
    LET line == RStripNewline(raw)
        branch == Classify(st, line)
    IN  CASE branch = "file_header" -> OnFileHeader(st)
          [] branch = "new_path" -> OnNewPathHeader(st, line)
          [] branch = "old_path" -> OnOldPathHeader(st)
          [] branch = "binary" -> OnBinaryMarker(st)
          [] branch = "hunk" -> OnHunkHeader(st, line)
          [] branch = "unattributed" -> OnDropped(st)
          [] branch = "blank" -> OnDropped(st)
          [] branch = "add" -> OnAdd(st, line)
          [] branch = "del" -> OnDel(st, line)
          [] OTHER -> OnContext(st)

\* FreshLocals as module-level state that a call inherits from the call before
LeftoverLocals == [cur_file |-> cur_file, old_line |-> old_line, new_line |-> new_line]

\* lines 73-75: the locals of a new call
FreshLocals == [cur_file |-> None, old_line |-> None, new_line |-> None]

\* the scan state of a call that has consumed nothing
StartOfCall ==
    [cur_file |-> FreshLocals.cur_file, old_line |-> FreshLocals.old_line,
     new_line |-> FreshLocals.new_line, out |-> <<>>, exc |-> FALSE]

\* the for loop from scan state st over the lines; it stops where an exception leaves
RECURSIVE Scan(_, _)
Scan(st, lines) ==
    IF lines = <<>> \/ st.exc THEN st ELSE Scan(LoopBody(st, Head(lines)), Tail(lines))

\* list(iter_changes(diff_lines))
IterChanges(diff_lines) == Scan(StartOfCall, diff_lines).out

----------------------------------------------------------------------------
(* The diffs handed to iter_changes: what get_diff_lines returns, the text  *)
(* that git show --unified=0 --no-renames prints, one section per changed   *)
(* file, cut into lines by run.  A section is described by its kind:        *)
(*   "text"   a textual change to file path: whether the file is edited,    *)
(*            new or gone, its modes, the blob names of its index line and  *)
(*            its hunks, each with the old start, the removed texts, the    *)
(*            new start, the added texts, the text git puts after the       *)
(*            header (the nearest line above the change that starts with a  *)
(*            letter, if there is one) and whether the last removed or the  *)
(*            last added text is the file's last line without a line end    *)
(*   "binary" a changed, new or gone binary file: its path, modes and blob  *)
(*            names                                                         *)
(*   "patch"  a changed binary file as git show --binary prints it: its     *)
(*            path, mode and blob names and the lines of the patch          *)
(*   "raw"    lines that git show does not print in this form (truncated,   *)
(*            hand-edited or foreign text), given as they are               *)

RECURSIVE Decimal(_)
Decimal(n) == IF n < 10 THEN <<Digits[n + 1]>> ELSE Decimal(n \div 10) \o <<Digits[(n % 10) + 1]>>

RECURSIVE Flatten(_)
Flatten(seqs) == IF seqs = <<>> THEN <<>> ELSE Head(seqs) \o Flatten(Tail(seqs))

\* the k-th smallest member of a set of numbers
Nth(set, k) == CHOOSE i \in set : Cardinality({ j \in set : j <= i }) = k

\* text=True of check_output: the output is read with universal newlines, a
\* "\r\n" and a lone "\r" arrive as "\n"
UniversalNewlines(s) ==
    LET kept == { i \in 1..Len(s) : ~(s[i] = "\n" /\ i > 1 /\ s[i - 1] = "\r") }
    IN  [k \in 1..Cardinality(kept) |-> IF s[Nth(kept, k)] = "\r" THEN "\n" ELSE s[Nth(kept, k)]]

\* the characters at which str.splitlines ends a line
LineBoundaries ==
    { "\n", "\r", "U+000B", "\f", "U+001C", "U+001D", "U+001E", "U+0085", "U+2028", "U+2029" }

\* str.splitlines(): the lines without their ends, a "\r\n" being one end, and
\* no empty line after a final end
SplitLines(s) ==
    LET ends == { i \in 1..Len(s) : s[i] \in LineBoundaries /\ ~(s[i] = "\n" /\ i > 1 /\ s[i - 1] = "\r") }
        n == Cardinality(ends)
        After(i) == IF s[i] = "\r" /\ i < Len(s) /\ s[i + 1] = "\n" THEN i + 2 ELSE i + 1
        StartOf(k) == IF k = 1 THEN 1 ELSE After(Nth(ends, k - 1))
    IN  [k \in 1..n |-> SubSeq(s, StartOf(k), Nth(ends, k) - 1)]
          \o (IF StartOf(n + 1) <= Len(s) THEN <<SubSeq(s, StartOf(n + 1), Len(s))>> ELSE <<>>)

\* run, lines 32-33, on a command that succeeds and prints text
Run(text) == SplitLines(UniversalNewlines(text))

\* the code points of the characters outside printable ASCII that the paths of
\* the model are drawn from
CodePoints ==
    << <<"U+0007", 7>>, <<"U+0008", 8>>, <<"\t", 9>>, <<"\n", 10>>, <<"U+000B", 11>>, <<"\f", 12>>,
       <<"\r", 13>>, <<"U+001C", 28>>, <<"U+007F", 127>>, <<"U+0085", 133>>, <<"U+00A0", 160>>,
       <<"U+00E9", 233>>, <<"U+0663", 1635>>, <<"U+2028", 8232>>, <<"U+FF11", 65297>>,
       <<"U+1D7CE", 120782>> >>

HasCodePoint(ch) == \E i \in 1..Len(CodePoints) : CodePoints[i][1] = ch

CodePointOf(ch) == CodePoints[CHOOSE i \in 1..Len(CodePoints) : CodePoints[i][1] = ch][2]

\* the bytes of a code point in UTF-8
Utf8(cp) ==
    IF cp < 128 THEN <<cp>>
    ELSE IF cp < 2048 THEN <<192 + (cp \div 64), 128 + (cp % 64)>>
    ELSE IF cp < 65536 THEN <<224 + (cp \div 4096), 128 + ((cp \div 64) % 64), 128 + (cp % 64)>>
    ELSE <<240 + (cp \div 262144), 128 + ((cp \div 4096) % 64), 128 + ((cp \div 64) % 64), 128 + (cp % 64)>>

\* a byte as git escapes it: a backslash and three octal digits
Octal(b) == <<"\\", Digits[(b \div 64) + 1], Digits[((b \div 8) % 8) + 1], Digits[(b % 8) + 1]>>

\* git quotes a name that holds a double quote, a backslash, a control
\* character or a byte outside ASCII
NeedsQuote(ch) == ch \in {"\"", "\\"} \/ HasCodePoint(ch)

\* a character of a quoted name
Escaped(ch) ==
    CASE ch = "\"" -> <<"\\", "\"">>
      [] ch = "\\" -> <<"\\", "\\">>
      [] ch = "U+0007" -> <<"\\", "a">>
      [] ch = "U+0008" -> <<"\\", "b">>
      [] ch = "\t" -> <<"\\", "t">>
      [] ch = "\n" -> <<"\\", "n">>
      [] ch = "U+000B" -> <<"\\", "v">>
      [] ch = "\f" -> <<"\\", "f">>
      [] ch = "\r" -> <<"\\", "r">>
      [] HasCodePoint(ch) -> LET bytes == Utf8(CodePointOf(ch)) IN Flatten([i \in 1..Len(bytes) |-> Octal(bytes[i])])
      [] OTHER -> <<ch>>

\* the name of a side of the change, a/path or b/path, as git prints it
NameOf(side, path) ==
    LET name == <<side, "/">> \o path
    IN  IF \E i \in 1..Len(path) : NeedsQuote(path[i])
        THEN <<"\"">> \o Flatten([i \in 1..Len(name) |-> Escaped(name[i])]) \o <<"\"">>
        ELSE name

DEV_NULL == <<"/","d","e","v","/","n","u","l","l">>

\* the name on a --- or +++ line: git adds a tab when the path holds a space
NameOnPathLine(side, path, there) ==
    IF ~there THEN DEV_NULL
    ELSE NameOf(side, path) \o (IF \E i \in 1..Len(path) : path[i] = " " THEN <<"\t">> ELSE <<>>)

REGULAR == <<"1","0","0","6","4","4">>
EXECUTABLE == <<"1","0","0","7","5","5">>

NO_NEWLINE_AT_END == <<"\\"," ","N","o"," ","n","e","w","l","i","n","e"," ","a","t"," ","e","n","d"," ","o","f"," ","f","i","l","e">>

\* a range of a hunk header: git leaves the count out when it is 1
RangeOf(start, count) ==
    Decimal(start) \o (IF count = 1 THEN <<>> ELSE <<",">> \o Decimal(count))

\* the lines of one side of a hunk as git prints them, each with its line end;
\* after a last line without one git puts a line of its own
SideText(sign, texts, noeol) ==
    Flatten([i \in 1..Len(texts) |->
        <<sign>> \o texts[i] \o <<"\n">>
          \o (IF noeol /\ i = Len(texts) THEN NO_NEWLINE_AT_END \o <<"\n">> ELSE <<>>)])

HunkText(h) ==
    <<"@","@"," ","-">> \o RangeOf(h.old, Len(h.dels)) \o <<" ","+">>
      \o RangeOf(h.new, Len(h.adds)) \o <<" ","@","@">>
      \o (IF h.ctx = <<>> THEN <<>> ELSE <<" ">> \o h.ctx) \o <<"\n">>
      \o SideText("-", h.dels, h.old_noeol)
      \o SideText("+", h.adds, h.new_noeol)

\* the text of a section up to its hunks or its binary marker
SectionHead(sec) ==
    <<"d","i","f","f"," ","-","-","g","i","t"," ">> \o NameOf("a", sec.path) \o <<" ">> \o NameOf("b", sec.path) \o <<"\n">>
      \o (CASE sec.change = "new" -> <<"n","e","w"," ","f","i","l","e"," ","m","o","d","e"," ">> \o sec.mode \o <<"\n">>
            [] sec.change = "gone" -> <<"d","e","l","e","t","e","d"," ","f","i","l","e"," ","m","o","d","e"," ">> \o sec.old_mode \o <<"\n">>
            [] sec.old_mode # sec.mode ->
                 <<"o","l","d"," ","m","o","d","e"," ">> \o sec.old_mode \o <<"\n">> \o <<"n","e","w"," ","m","o","d","e"," ">> \o sec.mode \o <<"\n">>
            [] OTHER -> <<>>)
      \o (IF sec.index = <<>> THEN <<>>
          ELSE <<"i","n","d","e","x"," ">> \o sec.index
                 \o (IF sec.change = "edit" /\ sec.old_mode = sec.mode THEN <<" ">> \o sec.mode ELSE <<>>)
                 \o <<"\n">>)

\* what git show prints for the section
SectionText(sec) ==
    CASE sec.kind = "text" ->
           SectionHead(sec)
             \o (IF sec.hunks = <<>> THEN <<>>
                 ELSE <<"-","-","-"," ">> \o NameOnPathLine("a", sec.path, sec.change # "new") \o <<"\n">>
                        \o <<"+","+","+"," ">> \o NameOnPathLine("b", sec.path, sec.change # "gone") \o <<"\n">>)
             \o Flatten([i \in 1..Len(sec.hunks) |-> HunkText(sec.hunks[i])])
      [] sec.kind = "binary" ->
           SectionHead(sec)
             \o (IF sec.index = <<>> THEN <<>>
                 ELSE <<"B","i","n","a","r","y"," ","f","i","l","e","s"," ">> \o (IF sec.change = "new" THEN DEV_NULL ELSE NameOf("a", sec.path))
                        \o <<" ","a","n","d"," ">> \o (IF sec.change = "gone" THEN DEV_NULL ELSE NameOf("b", sec.path))
                        \o <<" ","d","i","f","f","e","r">> \o <<"\n">>)
      [] OTHER ->
           \* "patch"
           SectionHead(sec) \o <<"G","I","T"," ","b","i","n","a","r","y"," ","p","a","t","c","h">> \o <<"\n">>
             \o Flatten([i \in 1..Len(sec.lines) |-> sec.lines[i] \o <<"\n">>])

\* get_diff_lines, lines 55-61, for a commit that changes the one file
SectionLines(sec) == IF sec.kind = "raw" THEN sec.lines ELSE Run(SectionText(sec))

FileSection(kind, change, path, old_mode, mode, index, hunks) ==
    [kind |-> kind, change |-> change, path |-> path, old_mode |-> old_mode, mode |-> mode,
     index |-> index, hunks |-> hunks, lines |-> <<>>]

TextSection(path, index, hunks) == FileSection("text", "edit", path, REGULAR, REGULAR, index, hunks)

BinarySection(path, index) == FileSection("binary", "edit", path, REGULAR, REGULAR, index, <<>>)

PatchSection(path, index, lines) ==
    [kind |-> "patch", change |-> "edit", path |-> path, old_mode |-> REGULAR, mode |-> REGULAR,
     index |-> index, hunks |-> <<>>, lines |-> lines]

RawSection(lines) ==
    [kind |-> "raw", change |-> "edit", path |-> <<>>, old_mode |-> REGULAR, mode |-> REGULAR,
     index |-> <<>>, hunks |-> <<>>, lines |-> lines]

HunkAtEnd(old, dels, new, adds, ctx, old_noeol, new_noeol) ==
    [old |-> old, dels |-> dels, new |-> new, adds |-> adds, ctx |-> ctx,
     old_noeol |-> old_noeol, new_noeol |-> new_noeol]

Hunk(old, dels, new, adds, ctx) == HunkAtEnd(old, dels, new, adds, ctx, FALSE, FALSE)

\* the sections the model draws its diffs from, by name
Section(name) ==
    CASE name = "add_two" ->
           \* the spec's example: foo.txt gets two lines after its line 9, they are its
           \* lines 10 and 11; one holds a backtick
           TextSection(<<"f","o","o",".","t","x","t">>, <<"0","8","f","e","1","9","c",".",".","5","7","9","b","d","3","c">>,
               <<Hunk(9, <<>>, 10, << <<"x">>, <<BACKTICK,"y">> >>, <<>>)>>)
      [] name = "del_two_replace_one" ->
           \* the spec's example: lines 5 and 6 of b removed; then line 8 replaced by an
           \* empty line, under a header that carries the text of old line 6
           TextSection(<<"b">>, <<"4","f","5","1","8","e","2",".",".","a","c","4","6","d","4","d">>,
               <<Hunk(5, << <<"x">>, <<"y">> >>, 4, <<>>, <<>>),
                 Hunk(8, << <<"x">> >>, 6, << <<>> >>, <<"y">>)>>)
      [] name = "header_like_text" ->
           \* lines 2 and 3 of a, "-- x" and "y", become "++ b/z" and "w", and a gets
           \* "++ b/a" and "x" at its end: in the diff the lines of the texts that
           \* start with two signs read --- x, +++ b/z and +++ b/a
           TextSection(<<"a">>, <<"6","5","e","a","9","4","f",".",".","a","3","7","e","b","5","0">>,
               <<Hunk(2, << <<"-","-"," ","x">>, <<"y">> >>, 2, << <<"+","+"," ","b","/","z">>, <<"w">> >>, <<>>),
                 Hunk(5, <<>>, 6, << <<"+","+"," ","b","/","a">>, <<"x">> >>, <<"y">>)>>)
      [] name = "marker_like_text" ->
           \* a gets the lines "Binary files" and "x" after its line 6
           TextSection(<<"a">>, <<"b","4","1","4","1","0","8",".",".","e","b","9","a","f","5","1">>,
               <<Hunk(6, <<>>, 7, << <<"B","i","n","a","r","y"," ","f","i","l","e","s">>, <<"x">> >>, <<>>)>>)
      [] name = "deleted_file" ->
           \* the executable file b, of two lines, is deleted
           FileSection("text", "gone", <<"b">>, EXECUTABLE, EXECUTABLE, <<"b","7","7","b","4","e","b",".",".","0","0","0","0","0","0","0">>,
               <<Hunk(1, << <<"x">>, <<"y">> >>, 0, <<>>, <<>>)>>)
      [] name = "new_file_quoted_path" ->
           \* a new file of two lines, the second without a line end, under a name
           \* that git quotes: an e with an acute accent
           FileSection("text", "new", <<"U+00E9">>, REGULAR, REGULAR, <<"0","0","0","0","0","0","0",".",".","1","b","3","2","2","9","8">>,
               <<HunkAtEnd(0, <<>>, 1, << <<"x">>, <<"y">> >>, <<>>, FALSE, TRUE)>>)
      [] name = "split_lines_spaced_path" ->
           \* my f, of the lines "1" and "q", the second without a line end, gets in
           \* place of "q" a line with a form feed inside and a line that ends in
           \* carriage return and line feed
           TextSection(<<"m","y"," ","f">>, <<"3","d","f","6","5","c","0",".",".","9","6","7","f","d","8","8">>,
               <<HunkAtEnd(2, << <<"q">> >>, 2, << <<"a","\f","b">>, <<"x","\r">> >>, <<>>, TRUE, FALSE)>>)
      [] name = "marker_in_hunk_header" ->
           \* c, whose first line reads "Binary files", gets the lines "++ b/q" and "w"
           \* after its line 3: git puts the first line after the hunk header
           TextSection(<<"c">>, <<"8","e","6","1","8","6","7",".",".","8","7","b","8","b","3","0">>,
               <<Hunk(3, <<>>, 4, << <<"+","+"," ","b","/","q">>, <<"w">> >>, <<"B","i","n","a","r","y"," ","f","i","l","e","s">>)>>)
      [] name = "binary_files" ->
           \* the binary file p changes
           BinarySection(<<"p">>, <<"b","d","c","9","5","5","b",".",".","8","8","3","5","7","0","8">>)
      [] name = "binary_patch" ->
           \* the change of p as git show --binary prints it; get_diff_lines does not
           \* pass --binary, so this reaches iter_changes from another caller only
           PatchSection(<<"p">>, <<"b","d","c","9","5","5","b","7","b","2","e","6","1","0","a","d","5","a","7","2","3","0","2","b","1","3","9","a","2","e","6","c","b","3","2","5","5","1","9","a",".",".","8","8","3","5","7","0","8","5","9","0","a","9","a","f","a","2","3","6","e","1","b","b","a","d","1","8","d","f","9","d","2","3","d","e","8","2","c","c","d","3">>,
               << <<"l","i","t","e","r","a","l"," ","2">>, <<"J","c","m","Z","Q","z","0","s","s","I","6","0","0","R","I","3">>, <<>>, <<"l","i","t","e","r","a","l"," ","2">>, <<"J","c","m","Z","Q","z","1","O","N","a","7","0","0","I","C","2">>, <<>> >>)
      [] name = "stray_before_hunk" ->
           \* a content line between the +++ line and the first hunk header, which has
           \* a form feed in front of its closing @@; after the hunk, a header with a
           \* negative old start and a zero new start, and a header whose numbers
           \* carry no sign
           RawSection(<< <<"d","i","f","f"," ","-","-","g","i","t"," ","a","/","b"," ","b","/","b">>,
                         <<"i","n","d","e","x"," ","1",".",".","2">>,
                         <<"+","+","+"," ","b","/","b">>,
                         <<"+","x">>,
                         <<"@","@"," ","-","2",",","0"," ","+","3","\f","@","@">>,
                         <<"+","y">>,
                         <<"@","@"," ","-","-","5"," ","+","0"," ","@","@">>,
                         <<"-","x">>,
                         <<"+","y">>,
                         <<"@","@"," ","1","0"," ","2","0"," ","@","@">>,
                         <<"+","x">> >>)
      [] name = "odd_lines_bad_headers" ->
           \* inside a hunk: a no-newline marker, a context line and an empty line;
           \* then a hunk header with one range only and one whose old start is no
           \* number, before a header that parses; last a header followed, as git
           \* writes it, by the text of the line above the change, here "Binary files"
           RawSection(<< <<"d","i","f","f"," ","-","-","g","i","t"," ","a","/","a"," ","b","/","a">>,
                         <<"+","+","+"," ","b","/","a">>,
                         <<"@","@"," ","-","1"," ","+","1"," ","@","@">>,
                         <<"-","x">>,
                         <<"\\"," ","N","o"," ","n","e","w","l","i","n","e"," ","a","t"," ",
                           "e","n","d"," ","o","f"," ","f","i","l","e">>,
                         <<" ","x">>,
                         <<>>,
                         <<"+","y">>,
                         <<"@","@"," ","-","1",",","2"," ","@","@">>,
                         <<"+","x">>,
                         <<"@","@"," ","-","a"," ","+","1"," ","@","@">>,
                         <<"+","x">>,
                         <<"@","@"," ","-","4"," ","+","4"," ","@","@">>,
                         <<"-","y">>,
                         <<"@","@"," ","-","7"," ","+","7"," ","@","@"," ","B","i","n","a","r","y"," ","f","i","l","e","s">>,
                         <<"-","x">> >>)
      [] OTHER ->
           \* "bare_content": content lines with no header at all, one still carrying its line end
           RawSection(<< <<"+","x","\n">>, <<"-","y">> >>)

SectionNames ==
    { "add_two", "del_two_replace_one", "header_like_text", "marker_like_text", "deleted_file",
      "new_file_quoted_path", "split_lines_spaced_path", "marker_in_hunk_header",
      "binary_files", "binary_patch",
      "stray_before_hunk", "odd_lines_bad_headers", "bare_content" }

\* the lines of each named section
LinesOf == [name \in SectionNames |-> SectionLines(Section(name))]

\* the lines of the diff made of the named sections
DiffLines(d) == Flatten([i \in 1..Len(d) |-> LinesOf[d[i]]])

\* the diffs of up to MaxSections sections; git prints a changed file once
Docs ==
    UNION { { d \in [1..n -> SectionNames] : \A i, j \in 1..n : d[i] = d[j] => i = j } :
            n \in 0..MaxSections }

----------------------------------------------------------------------------
(* The state machine: a call of iter_changes on input, consumed to the end. *)

\* diff_lines: the sequence of raw lines handed to iter_changes
input == DiffLines(doc)

\* a caller that stands at line 152 with a diff in hand, whatever it was called with
AtCallOfIterChanges ==
    /\ commits = <<>>
    /\ ci = 0
    /\ hpc = "diff"
    /\ hist_out = <<>>
    /\ by_file = <<>>
    /\ fi = 0
    /\ written = None

Init ==
    /\ doc \in Docs
    /\ pc = "idle"
    /\ pos = 1
    /\ cur_file = None
    /\ old_line = None
    /\ new_line = None
    /\ out = <<>>
    /\ last = None
    /\ AtCallOfIterChanges

\* the scan state of the running call
St == [cur_file |-> cur_file, old_line |-> old_line, new_line |-> new_line,
       out |-> out, exc |-> FALSE]

\* the line the loop is at, as line 78 leaves it
Line == RStripNewline(input[pos])

AtLine(branch) == pc = "scan" /\ pos <= Len(input) /\ Classify(St, Line) = branch

\* the loop body has run and left scan state n
Advance(n) ==
    /\ cur_file' = n.cur_file
    /\ old_line' = n.old_line
    /\ new_line' = n.new_line
    /\ out' = n.out
    /\ pos' = pos + 1
    /\ pc' = IF n.exc THEN "raised" ELSE "scan"
    /\ UNCHANGED <<doc, last>>
    /\ UNCHANGED hvars

\* the loop body has reached a yield with scan state n: the consumer has the new
\* record, the rest of the body has not run
Suspend(n, at) ==
    /\ out' = n.out
    /\ pc' = at
    /\ UNCHANGED <<doc, last, pos, cur_file, old_line, new_line>>
    /\ UNCHANGED hvars

\* a call enters iter_changes: lines 73-75
Enter ==
    /\ pc' = "scan"
    /\ pos' = 1
    /\ cur_file' = FreshLocals.cur_file
    /\ old_line' = FreshLocals.old_line
    /\ new_line' = FreshLocals.new_line
    /\ out' = <<>>
    /\ UNCHANGED <<doc, last>>
    /\ UNCHANGED hvars

\* list(iter_changes(diff)) is called for the first time
Call == hpc = "diff" /\ pc = "idle" /\ last = None /\ Enter

\* list(iter_changes(diff)) is called again on the same diff, after a call that has returned
CallAgain == pc = "idle" /\ last # None /\ Enter

FileHeader == AtLine("file_header") /\ Advance(OnFileHeader(St))

NewPathHeader == AtLine("new_path") /\ Advance(OnNewPathHeader(St, Line))

OldPathHeader == AtLine("old_path") /\ Advance(OnOldPathHeader(St))

BinaryMarker == AtLine("binary") /\ Advance(OnBinaryMarker(St))

HunkHeader == AtLine("hunk") /\ Advance(OnHunkHeader(St, Line))

DropUnattributed == AtLine("unattributed") /\ Advance(OnDropped(St))

DropBlank == AtLine("blank") /\ Advance(OnDropped(St))

\* line 115: the generator hands the record over and is suspended
YieldAdd == AtLine("add") /\ Suspend(AddRecord(St, Line), "yield_add")

\* the consumer asks for the next record: line 116, then the loop goes on
ResumeAfterAdd == pc = "yield_add" /\ Advance(AfterAdd(St))

\* line 118: the generator hands the record over and is suspended
YieldDel == AtLine("del") /\ Suspend(DelRecord(St, Line), "yield_del")

\* the consumer asks for the next record: line 119, then the loop goes on
ResumeAfterDel == pc = "yield_del" /\ Advance(AfterDel(St))

ContextLine == AtLine("context") /\ Advance(OnContext(St))

\* the input is exhausted: the generator ends and the caller holds its records
Return ==
    /\ pc = "scan"
    /\ pos > Len(input)
    /\ pc' = "idle"
    /\ last' = Some(out)
    /\ UNCHANGED <<doc, pos, cur_file, old_line, new_line, out>>
    /\ UNCHANGED hvars

Next ==
    \/ Call
    \/ FileHeader
    \/ NewPathHeader
    \/ OldPathHeader
    \/ BinaryMarker
    \/ HunkHeader
    \/ DropUnattributed
    \/ DropBlank
    \/ YieldAdd
    \/ ResumeAfterAdd
    \/ YieldDel
    \/ ResumeAfterDel
    \/ ContextLine
    \/ Return

\* one call of iter_changes on a diff
Spec == Init /\ [][Next]_vars

NextOrCallAgain ==
    \/ Next
    \/ CallAgain

\* a caller that calls more than once: its diffs are those of fewer sections
InitCalls == Init /\ Len(doc) < MaxSections

\* calls of iter_changes on the same diff, one after the other
SpecCalls == InitCalls /\ [][NextOrCallAgain]_vars

----------------------------------------------------------------------------
(* write_history, lines 146-172.  The list out holds the lines of the       *)
(* change log; here it is hist_out, a sequence of items: "title", "file",   *)
(* "fence" and "change" items carry the text the code appends, a "heading"  *)
(* item carries the subject and the short hash of its commit (its text also *)
(* holds the commit time as to_et formats it, which is left out).           *)

TITLE == <<"#"," ","C","h","a","n","g","e"," ","N","o","t","e","s","\n">>
FILE_OPEN == <<"\n","*","*","F","i","l","e",":","*","*"," ",BACKTICK>>
FILE_CLOSE == <<BACKTICK,"\n">>
FENCE_OPEN == <<BACKTICK,BACKTICK,BACKTICK,"d","i","f","f">>
FENCE_CLOSE == <<BACKTICK,BACKTICK,BACKTICK>>
\* s[:n]
Prefix(s, n) == SubSeq(s, 1, IF n < Len(s) THEN n ELSE Len(s))

\* str(n) of an integer
StrOfInt(n) == IF n < 0 THEN <<"-">> \o Decimal(-n) ELSE Decimal(n)

\* line 168: every backtick of the text gets a backslash in front
EscapeBackticks(text) ==
    Flatten([i \in 1..Len(text) |->
                IF text[i] = BACKTICK THEN <<"\\", BACKTICK>> ELSE <<text[i]>>])

\* the commits the model draws from, as get_commits yields them (the date and the
\* author's address, which decide nothing here, are left out), each with the
\* sections of the lines that get_diff_lines returns for its hash, or with the
\* mark that get_diff_lines raises for it
Commit(name) ==
    CASE name = "no_diff" ->
           \* a commit that changes no file
           [hash |-> <<"a","1","f","0","c","3","d","2","9","b","6","e","4","f","7","a","8","c","5","d","0","e","1","b","2","a","3","9","4","8","5","7","6","c","6","d","7","e","8","f">>,
            subject |-> <<"n","o">>, diff |-> <<>>, raises |-> FALSE]
      [] name = "binary_only" ->
           \* a commit that changes a binary file only
           [hash |-> <<"5","8","8","5","7","d","d","0","c","4","e","2","a","1","b","3","9","f","7","d","6","e","5","c","4","b","3","a","2","9","1","8","1","7","0","6","f","5","e","4">>,
            subject |-> <<"b","i","n">>, diff |-> <<"binary_files">>, raises |-> FALSE]
      [] name = "one_file" ->
           [hash |-> <<"0","2","3","7","b","0","d","0","8","1","1","5","d","8","a","1","1","0","f","2","3","8","f","b","8","a","4","c","f","1","7","a","4","a","0","2","6","d","f","7">>,
            subject |-> <<"o","n","e">>, diff |-> <<"add_two">>, raises |-> FALSE]
      [] name = "two_files" ->
           [hash |-> <<"d","4","c","3","b","2","a","1","9","0","8","f","7","e","6","d","5","c","4","b","3","a","2","9","1","8","0","7","0","6","1","5","f","4","e","3","d","2","c","1">>,
            subject |-> <<"t","w","o">>, diff |-> <<"del_two_replace_one", "add_two">>, raises |-> FALSE]
      [] name = "new_quoted_only" ->
           \* a commit that adds one file, under a name that git quotes
           [hash |-> <<"7","c","1","e","9","a","4","0","b","2","d","3","f","5","6","6","8","a","9","0","c","1","d","2","e","3","f","4","0","5","1","6","2","7","3","8","4","9","5","a">>,
            subject |-> <<"n","e","w">>, diff |-> <<"new_file_quoted_path">>, raises |-> FALSE]
      [] name = "spaced_path" ->
           \* a commit that changes a file with a space in its name
           [hash |-> <<"3","b","9","d","2","f","7","e","6","a","5","c","4","d","1","e","0","f","9","a","8","b","7","c","6","d","5","e","4","f","3","a","2","b","1","c","0","d","9","e">>,
            subject |-> <<"s","p","c">>, diff |-> <<"split_lines_spaced_path">>, raises |-> FALSE]
      [] name = "undecodable" ->
           \* a commit whose diff holds bytes that are not UTF-8 (a file in Latin-1):
           \* check_output raises UnicodeDecodeError
           [hash |-> <<"9","e","8","d","7","c","6","b","5","a","4","f","3","e","2","d","1","c","0","b","9","a","8","f","7","e","6","d","5","c","4","b","3","a","2","9","1","8","0","7">>,
            subject |-> <<"l","a","t">>, diff |-> <<>>, raises |-> TRUE]
      [] name = "unknown_hash" ->
           \* a commit that the repository at hand does not hold: git show fails and
           \* check_output raises CalledProcessError
           [hash |-> <<"c","0","f","f","e","e","1","2","3","4","5","6","7","8","9","0","a","b","c","d","e","f","1","2","3","4","5","6","7","8","9","0","a","b","c","d","e","f","1","2">>,
            subject |-> <<"u","n","k">>, diff |-> <<>>, raises |-> TRUE]
      [] OTHER ->
           \* "file_twice": a commit that changes file a only; the records of its diff
           \* come under a, then z, then a again
           [hash |-> <<"e","5","f","6","0","7","1","8","2","9","3","a","4","b","5","c","6","d","7","e","8","f","9","0","a","1","b","2","c","3","d","4","e","5","f","6","0","7","1","8">>,
            subject |-> <<"a","z","a">>, diff |-> <<"header_like_text">>, raises |-> FALSE]

CommitNames ==
    { "no_diff", "binary_only", "one_file", "two_files", "file_twice", "new_quoted_only",
      "spaced_path", "undecodable", "unknown_hash" }

CommitLists == UNION { [1..n -> CommitNames] : n \in 0..MaxCommits }

\* line 147
TitleItem == [kind |-> "title", text |-> TITLE]

\* line 157, without the time
HeadingItem(c) == [kind |-> "heading", subject |-> c.subject, hash |-> Prefix(c.hash, 7)]

\* line 163
FileItem(fname) == [kind |-> "file", text |-> FILE_OPEN \o fname \o FILE_CLOSE]

\* line 164
FenceOpenItem == [kind |-> "fence", text |-> FENCE_OPEN]

\* line 170
FenceCloseItem == [kind |-> "fence", text |-> FENCE_CLOSE]

\* lines 166-169
ChangeItem(ch) ==
    LET sign == IF ch.type = "add" THEN "+" ELSE "-"
        ln == Get(ch.line)
        text == EscapeBackticks(ch.text)
    IN  [kind |-> "change",
         text |-> <<"-"," ","L">> \o StrOfInt(ln) \o <<":"," ">> \o <<sign>> \o <<" ">> \o text]

\* HasChanges without the test of line 153: no commit is skipped
HasChangesAlways(changes) == TRUE

\* line 153, negated
HasChanges(changes) == changes # <<>>

\* SetDefaultAppend that looks at the newest entry only: a file that comes back
\* after another file gets a second entry
SetDefaultAppendToNewest(entries, ch) ==
    LET fname == Get(ch.file)
        n == Len(entries)
    IN  IF n > 0 /\ entries[n].file = fname
        THEN [entries EXCEPT ![n].items = Append(@, ch)]
        ELSE Append(entries, [file |-> fname, items |-> <<ch>>])

\* line 160: by_file.setdefault(ch["file"], []).append(ch)
SetDefaultAppend(entries, ch) ==
    LET fname == Get(ch.file)
    IN  IF \E i \in 1..Len(entries) : entries[i].file = fname
        THEN [i \in 1..Len(entries) |->
                 IF entries[i].file = fname
                 THEN [entries[i] EXCEPT !.items = Append(@, ch)]
                 ELSE entries[i]]
        ELSE Append(entries, [file |-> fname, items |-> <<ch>>])

\* lines 158-160
RECURSIVE GroupInto(_, _)
GroupInto(entries, changes) ==
    IF changes = <<>> THEN entries
    ELSE GroupInto(SetDefaultAppend(entries, Head(changes)), Tail(changes))

GroupByFile(changes) == GroupInto(<<>>, changes)

\* lines 163-169: what one entry of by_file adds to out
FileBlock(entry) ==
    <<FileItem(entry.file), FenceOpenItem>>
    \o [i \in 1..Len(entry.items) |-> ChangeItem(entry.items[i])]

\* the state of the extractor, as write_history sees it between its own steps
evars == <<doc, pc, pos, cur_file, old_line, new_line, out, last>>

InitHistory ==
    /\ commits \in CommitLists
    /\ ci = 0
    /\ hpc = "start"
    /\ hist_out = <<>>
    /\ by_file = <<>>
    /\ fi = 0
    /\ written = None
    /\ doc = <<>>
    /\ pc = "idle"
    /\ pos = 1
    /\ cur_file = None
    /\ old_line = None
    /\ new_line = None
    /\ out = <<>>
    /\ last = None

\* lines 146-147
Begin ==
    /\ hpc = "start"
    /\ hist_out' = <<TitleItem>>
    /\ ci' = 1
    /\ hpc' = "loop"
    /\ UNCHANGED <<commits, by_file, fi, written>>
    /\ UNCHANGED evars

\* lines 150-151: the next commit's diff is fetched; an exception of
\* get_diff_lines leaves write_history
GetDiff ==
    /\ hpc = "loop"
    /\ ci <= Len(commits)
    /\ IF Commit(commits[ci]).raises
       THEN hpc' = "raised" /\ doc' = doc
       ELSE hpc' = "diff" /\ doc' = Commit(commits[ci]).diff
    /\ UNCHANGED <<pc, pos, cur_file, old_line, new_line, out, last>>
    /\ UNCHANGED <<commits, ci, hist_out, by_file, fi, written>>

\* line 152: list() runs the generator to its end, asking for every next record
\* at once; an exception of iter_changes leaves write_history
ListChanges ==
    /\ hpc = "diff"
    /\ LET r == Scan(StartOfCall, input)
       IN  /\ last' = IF r.exc THEN last ELSE Some(r.out)
           /\ hpc' = IF r.exc THEN "raised" ELSE "changes"
    /\ UNCHANGED <<doc, pc, pos, cur_file, old_line, new_line, out>>
    /\ UNCHANGED <<commits, ci, hist_out, by_file, fi, written>>

\* lines 153-154
SkipCommit ==
    /\ hpc = "changes"
    /\ ~HasChanges(Get(last))
    /\ ci' = ci + 1
    /\ hpc' = "loop"
    /\ UNCHANGED <<commits, hist_out, by_file, fi, written>>
    /\ UNCHANGED evars

\* lines 156-160
Heading ==
    /\ hpc = "changes"
    /\ HasChanges(Get(last))
    /\ hist_out' = Append(hist_out, HeadingItem(Commit(commits[ci])))
    /\ by_file' = GroupByFile(Get(last))
    /\ fi' = 1
    /\ hpc' = "files"
    /\ UNCHANGED <<commits, ci, written>>
    /\ UNCHANGED evars

\* lines 162-169: one pass of the loop over by_file.items()
RenderFile ==
    /\ hpc = "files"
    /\ fi <= Len(by_file)
    /\ hist_out' = hist_out \o FileBlock(by_file[fi])
    /\ fi' = fi + 1
    /\ UNCHANGED <<commits, ci, hpc, by_file, written>>
    /\ UNCHANGED evars

\* line 170, after the loop over by_file.items()
CloseFence ==
    /\ hpc = "files"
    /\ fi > Len(by_file)
    /\ hist_out' = Append(hist_out, FenceCloseItem)
    /\ ci' = ci + 1
    /\ hpc' = "loop"
    /\ UNCHANGED <<commits, by_file, fi, written>>
    /\ UNCHANGED evars

\* line 172: the items, joined by line ends, become the output file
WriteText ==
    /\ hpc = "loop"
    /\ ci > Len(commits)
    /\ written' = Some(hist_out)
    /\ hpc' = "done"
    /\ UNCHANGED <<commits, ci, hist_out, by_file, fi>>
    /\ UNCHANGED evars

NextHistory ==
    \/ Begin
    \/ GetDiff
    \/ ListChanges
    \/ SkipCommit
    \/ Heading
    \/ RenderFile
    \/ CloseFence
    \/ WriteText

\* one call of write_history on a list of commits
SpecHistory == InitHistory /\ [][NextHistory]_vars

----------------------------------------------------------------------------
(* Notions the properties below are stated with. *)

\* the line the loop has just consumed
PrevLine == RStripNewline(input[pos - 1])

\* the generator is suspended at a yield of the loop body, on the line at pos
Suspended == pc \in {"yield_add", "yield_del"}

\* the loop body runs on the line at pos in this step: all of it, or the part up to
\* its yield, or the part after its yield
ConsumesLine ==
    \/ pc = "scan" /\ pos <= Len(input) /\ (pos' = pos + 1 \/ Suspended')
    \/ Suspended /\ pos' = pos + 1

\* all three locals hold a value
AllDefined == cur_file # None /\ old_line # None /\ new_line # None

\* no local holds a value
AllUndefined == cur_file = None /\ old_line = None /\ new_line = None

\* a line that one of the header rules (lines 81-107) consumes
IsHeaderLine(line) ==
    \/ StartsWith(line, DIFF_GIT)
    \/ StartsWith(line, NEW_PATH)
    \/ StartsWith(line, OLD_PATH)
    \/ Contains(line, BINARY_FILES)
    \/ StartsWith(line, GIT_BINARY_PATCH)
    \/ StartsWith(line, HUNK)

\* a call has returned its records to the caller
Finished == last # None

----------------------------------------------------------------------------
(* C1 *)

\* C1: for every input, malformed lines and hunk headers that fail to parse
\* included, no exception leaves iter_changes, and the call yields at most one
\* record per line consumed, so bad input can only lower the number of records.
C1_NeverRaises ==
    /\ pc \in {"idle", "scan", "yield_add", "yield_del"}
    /\ Len(out) <= (IF Suspended THEN pos ELSE pos - 1)
    /\ (Finished => Len(Get(last)) <= Len(input))

\* a call has run to the end of an input that holds a hunk header that fails to parse
C1_Witness ==
    /\ Finished
    /\ \E i \in 1..Len(input) :
          /\ Classify(StartOfCall, input[i]) = "hunk"
          /\ ~ParseHunkHeader(input[i]).ok

----------------------------------------------------------------------------
(* C2, C3: the records of a textual diff, read off its description. *)

\* the records a hunk of file path stands for: one per removed line, numbered
\* from the old start, then one per added line, numbered from the new start
RecordsOfHunk(path, h) ==
    [k \in 1..Len(h.dels) |->
        [file |-> Some(path), line |-> Some(h.old + k - 1), type |-> "del", text |-> h.dels[k]]]
    \o
    [k \in 1..Len(h.adds) |->
        [file |-> Some(path), line |-> Some(h.new + k - 1), type |-> "add", text |-> h.adds[k]]]

RecordsOfSection(sec) ==
    Flatten([i \in 1..Len(sec.hunks) |-> RecordsOfHunk(sec.path, sec.hunks[i])])

RecordsOfDoc(d) == Flatten([i \in 1..Len(d) |-> RecordsOfSection(Section(d[i]))])

\* the section is a textual one that git heads with a +++ b/<path> line: the file
\* is still there and git does not quote its name
HeadedByNewPath(sec) ==
    /\ sec.kind = "text"
    /\ sec.change # "gone"
    /\ \A i \in 1..Len(sec.path) : ~NeedsQuote(sec.path[i])

\* every section is a textual one with a +++ b/<path> header and hunk headers as git writes them
AllTextual == \A i \in 1..Len(doc) : HeadedByNewPath(Section(doc[i]))

\* C2: in a section headed +++ b/<path>, the k-th added line of a hunk with new
\* start c yields an Addition numbered c+k and the k-th removed line of a hunk
\* with old start a yields a Deletion numbered a+k, whatever the text of the lines.
C2_LineNumbersAsStated ==
    (Finished /\ AllTextual) =>
        \A i \in 1..Len(RecordsOfDoc(doc)) :
            \E j \in 1..Len(Get(last)) : Get(last)[j] = RecordsOfDoc(doc)[i]

\* C3: for a diff of textual sections with valid hunk headers, exactly one record
\* is emitted per added and per removed line, whatever its text, and the record's
\* text is the line without its leading marker.
C3_OneRecordPerChangedLineAsStated ==
    (Finished /\ AllTextual) =>
        /\ Len(Get(last)) = Len(RecordsOfDoc(doc))
        /\ \A i \in 1..Len(Get(last)) :
              /\ Get(last)[i].type = RecordsOfDoc(doc)[i].type
              /\ Get(last)[i].text = RecordsOfDoc(doc)[i].text

----------------------------------------------------------------------------
(* C4 *)

\* C4: records are yielded in the order of the lines they come from: a step of
\* the loop consumes one line and either leaves the records as they are or puts
\* one record, made from that line, after all earlier ones; the caller receives
\* the records in that order.
C4_OrderPreserved ==
    [][ /\ ConsumesLine =>
            \/ out' = out
            \/ /\ ~Suspended
               /\ Len(out') = Len(out) + 1
               /\ SubSeq(out', 1, Len(out)) = out
               /\ out'[Len(out')].text = Drop(Line, 1)
               /\ out'[Len(out')].type = (IF Head(Line) = "+" THEN "add" ELSE "del")
        /\ (pc = "scan" /\ pc' = "idle") => last' = Some(out) ]_vars

\* a call has returned three records or more, from lines of both kinds
C4_Witness ==
    /\ Finished
    /\ Len(Get(last)) >= 3
    /\ \E i, j \in 1..Len(Get(last)) :
          i < j /\ Get(last)[i].type = "del" /\ Get(last)[j].type = "add"

----------------------------------------------------------------------------
(* C5, C6: what a diff --git line and a binary marker leave behind. *)

\* line i lies before the first hunk header of its file section: no line from the
\* section's diff --git line (or from the start of the input) up to i is a hunk header
BeforeFirstHunk(i) ==
    LET heads == { j \in 1..i : IsFileHeader(RStripNewline(input[j])) }
        start == IF heads = {} THEN 1 ELSE CHOOSE j \in heads : \A m \in heads : m <= j
    IN  \A j \in start..i : ~IsHunkHeader(RStripNewline(input[j]))

\* C5: in every file section, a line before the section's first hunk header
\* produces no record and does not move the line counters.
C5_NoRecordBeforeFirstHunkAsStated ==
    [][ (ConsumesLine /\ BeforeFirstHunk(pos)) =>
            (out' = out /\ old_line' = old_line /\ new_line' = new_line) ]_vars

\* C6: right after a diff --git line or a binary marker line, the file and both
\* counters are undefined.
C6_FullResetAsStated ==
    (pc = "scan" /\ pos > 1 /\ Classify(StartOfCall, PrevLine) \in {"file_header", "binary"})
        => AllUndefined

----------------------------------------------------------------------------
(* C7, C8: sections do not influence each other. *)

\* the section is a file section as git writes it
AsGitWrites(name) == Section(name).kind \in {"text", "binary", "patch"}

\* the section is one of a binary file
IsBinarySection(name) == Section(name).kind \in {"binary", "patch"}

\* the number of input lines that the first k sections take
LinesUpTo(k) == Len(DiffLines(SubSeq(doc, 1, k)))

\* C7: when a binary file section lies between two textual file sections, no
\* record comes from the lines of the binary section, and the records of the
\* textual sections before and after it are those of each extracted alone.
C7_BinarySectionIsolatedAsStated ==
    (/\ Len(doc) >= 3
     /\ Section(doc[1]).kind = "text"
     /\ IsBinarySection(doc[2])
     /\ Section(doc[3]).kind = "text"
     /\ pc = "scan")
    => /\ (LinesUpTo(1) < pos /\ pos <= LinesUpTo(2) + 1) => out = IterChanges(LinesOf[doc[1]])
       /\ pos = LinesUpTo(3) + 1
            => out = IterChanges(LinesOf[doc[1]]) \o IterChanges(LinesOf[doc[3]])

\* C8: extracting the concatenation of single-file diffs as git writes them
\* yields the records of each diff extracted alone, concatenated in order.
C8_ConcatenationOfDiffsAsStated ==
    (Finished /\ \A i \in 1..Len(doc) : AsGitWrites(doc[i]))
        => Get(last) = Flatten([i \in 1..Len(doc) |-> IterChanges(LinesOf[doc[i]])])

----------------------------------------------------------------------------
(* C9 *)

\* C9: every call starts with the file and both counters undefined and no
\* record yielded, whatever an earlier call left, and a call that reaches the
\* end of the input has yielded the records the call before it returned.
C9_RestartablePerCall ==
    /\ (pc = "scan" /\ pos = 1) => (AllUndefined /\ out = <<>>)
    /\ (Finished /\ pc = "scan" /\ pos > Len(input)) => out = Get(last)

\* a second call has reached the end of an input that yields records and that
\* left the file and a counter defined at the end of the first call
C9_Witness ==
    /\ Finished
    /\ pc = "scan"
    /\ pos > Len(input)
    /\ out # <<>>
    /\ AllDefined

----------------------------------------------------------------------------
(* C10 *)

\* C10: a step of the loop yields a record only if the file and both counters
\* are defined at that line, and when one of them is undefined a line that is
\* no header yields nothing and changes none of the three.
C10_EmitOnlyWhenAttributable ==
    [][ ConsumesLine =>
            /\ (out' # out => AllDefined)
            /\ (~AllDefined /\ ~IsHeaderLine(Line)) =>
                   (out' = out /\ cur_file' = cur_file
                    /\ old_line' = old_line /\ new_line' = new_line) ]_vars

\* the loop has just dropped a removed line while the counters were defined and the file was not
C10_Witness ==
    /\ pc = "scan"
    /\ pos > 1
    /\ cur_file = None
    /\ old_line # None
    /\ new_line # None
    /\ StartsWith(PrevLine, <<"-">>)
    /\ ~IsHeaderLine(PrevLine)

----------------------------------------------------------------------------
(* C11 *)

\* C11: every record yielded, for any input, carries a line number of 1 or more,
\* also after a hunk header whose start numbers are zero, negative or unsigned.
C11_PositiveLineNumbersAsStated ==
    \A i \in 1..Len(out) : Get(out[i].line) >= 1

----------------------------------------------------------------------------
(* C13 *)

\* C13: a line starting with "@@ " either sets both counters to the old start and
\* the new start it names or, when any part of it fails to parse, leaves both
\* undefined; while the counters are undefined every line is dropped and they stay
\* undefined until a hunk header that parses.
C13_HunkHeaderSetsOrClearsBothAsStated ==
    /\ [][ConsumesLine /\ StartsWith(Line, HUNK) =>
            LET h == ParseHunkHeader(Line)
            IN  \/ h.ok /\ old_line' = Some(h.old_start) /\ new_line' = Some(h.new_start)
                \/ old_line' = None /\ new_line' = None]_vars
    /\ [][/\ ConsumesLine
          /\ old_line = None \/ new_line = None
          /\ ~(StartsWith(Line, HUNK) /\ ParseHunkHeader(Line).ok)
          => out' = out /\ old_line' = None /\ new_line' = None]_vars

----------------------------------------------------------------------------
(* C14 *)

\* the lines among the first k that start with "+++ "
NewPathLines(k) ==
    LET lines == input
    IN  { i \in 1..k : StartsWith(RStripNewline(lines[i]), NEW_PATH) }

\* the largest number of a non-empty set of line numbers
Latest(S) == CHOOSE i \in S : \A j \in S : j <= i

\* the most recent "+++ " line among the first k names no path under b/
UnderForeignPath(k) ==
    LET named == NewPathLines(k)
    IN  /\ named # {}
        /\ ~StartsWith(Drop(RStripNewline(input[Latest(named)]), 4), B_PREFIX)

\* C14: from a "+++ " line whose path does not start with b/ (as "+++ /dev/null")
\* up to the next "+++ b/<path>" line, cur_file is undefined and no line yields a
\* record, removed lines under a hunk header that parses included.
C14_NoRecordUnderForeignPath ==
    /\ [](pc = "scan" /\ UnderForeignPath(pos - 1) => cur_file = None)
    /\ [][ConsumesLine /\ UnderForeignPath(pos - 1) => out' = out]_vars

\* a removed line of a deleted file, under a hunk header that parsed, has been consumed
C14_Witness ==
    /\ pc = "scan"
    /\ UnderForeignPath(pos - 1)
    /\ StartsWith(PrevLine, <<"-">>)
    /\ ~IsHeaderLine(PrevLine)
    /\ old_line # None
    /\ new_line # None

----------------------------------------------------------------------------
(* C15 *)

\* the lines among the first k that start with "+++ b/"
NewFileLines(k) ==
    LET lines == input
    IN  { i \in NewPathLines(k) : StartsWith(Drop(RStripNewline(lines[i]), 4), B_PREFIX) }

\* the lines among the first k that start with "diff --git "
FileHeaderLines(k) ==
    LET lines == input
    IN  { i \in 1..k : StartsWith(RStripNewline(lines[i]), DIFF_GIT) }

\* the lines among the first k that the binary-marker rule takes: they hold a
\* marker and are no "diff --git ", "+++ " or "--- " line
BinaryMarkerLines(k) ==
    LET lines == input
    IN  { i \in 1..k : LET l == RStripNewline(lines[i])
                       IN  /\ Contains(l, BINARY_FILES) \/ StartsWith(l, GIT_BINARY_PATCH)
                           /\ ~StartsWith(l, DIFF_GIT)
                           /\ ~StartsWith(l, NEW_PATH)
                           /\ ~StartsWith(l, OLD_PATH) }

\* C15: a record carries as file the path of the most recent "+++ b/<path>" line
\* without its "b/", and that line comes after the most recent "diff --git " line
\* and after the most recent binary marker line: a record never carries the file
\* of an earlier section.
C15_FileOfLatestNewPath ==
    [][ConsumesLine /\ out' # out =>
         LET named == NewFileLines(pos - 1)
             rec == out'[Len(out')]
         IN  /\ Len(out') = Len(out) + 1
             /\ named # {}
             /\ rec.file = Some(Drop(RStripNewline(input[Latest(named)]), 6))
             /\ \A i \in FileHeaderLines(pos - 1) \cup BinaryMarkerLines(pos - 1) :
                    i < Latest(named)]_vars

\* a record of the second file section has been yielded after records of the first,
\* and the two sections name different files
C15_Witness ==
    /\ pc = "scan"
    /\ Len(out) >= 2
    /\ Cardinality(FileHeaderLines(pos - 1)) >= 2
    /\ out[Len(out)].file # out[1].file
    /\ out[Len(out)].file = Some(Drop(RStripNewline(input[Latest(NewFileLines(pos - 1))]), 6))

----------------------------------------------------------------------------
(* C16 *)

\* the line at pos is a content line with the given sign and can be attributed
ContentLineWith(sign) ==
    /\ AllDefined
    /\ ~IsHeaderLine(Line)
    /\ StartsWith(Line, <<sign>>)

\* C16: an added line yields an addition numbered with new_line and raises new_line
\* by one, leaving old_line and cur_file as they were; a removed line yields a
\* deletion numbered with old_line and raises old_line by one, leaving new_line
\* and cur_file as they were.  The record is yielded first, with the counter's
\* value of that moment; the counter is raised when the generator is resumed.
C16_OneCounterPerSide ==
    /\ [][pc = "scan" /\ ConsumesLine /\ ContentLineWith("+") =>
            /\ out' = Append(out, [file |-> cur_file, line |-> new_line, type |-> "add",
                                   text |-> Drop(Line, 1)])
            /\ pc' = "yield_add"
            /\ UNCHANGED <<old_line, new_line, cur_file>>]_vars
    /\ [][pc = "yield_add" /\ ConsumesLine =>
            /\ out[Len(out)].line = new_line
            /\ new_line' = Some(Get(new_line) + 1)
            /\ UNCHANGED <<old_line, cur_file, out>>]_vars
    /\ [][pc = "scan" /\ ConsumesLine /\ ContentLineWith("-") =>
            /\ out' = Append(out, [file |-> cur_file, line |-> old_line, type |-> "del",
                                   text |-> Drop(Line, 1)])
            /\ pc' = "yield_del"
            /\ UNCHANGED <<old_line, new_line, cur_file>>]_vars
    /\ [][pc = "yield_del" /\ ConsumesLine =>
            /\ out[Len(out)].line = old_line
            /\ old_line' = Some(Get(old_line) + 1)
            /\ UNCHANGED <<new_line, cur_file, out>>]_vars

\* a removed line has been yielded in a hunk whose two sides stand at different
\* numbers, after an added line of the same input
C16_Witness ==
    /\ pc = "scan"
    /\ AllDefined
    /\ StartsWith(PrevLine, <<"-">>)
    /\ Len(out) >= 2
    /\ out[Len(out)].type = "del"
    /\ \E i \in 1..Len(out) : out[i].type = "add"
    /\ old_line # new_line
    /\ out[Len(out)].line = Some(Get(old_line) - 1)

----------------------------------------------------------------------------
(* C17 *)

\* C17: a "--- " line, an empty line and a "\ No newline at end of file" line each
\* yield no record and leave cur_file, old_line and new_line as they were.
C17_SkippedLinesChangeNothing ==
    [][ConsumesLine /\ (StartsWith(Line, OLD_PATH) \/ Line = <<>> \/ Line = NO_NEWLINE)
         => UNCHANGED <<cur_file, old_line, new_line, out>>]_vars

\* inside a hunk, with file and counters defined, an empty line has been consumed
\* after a no-newline marker, in an input that also holds a "--- " line
C17_Witness ==
    /\ pc = "scan"
    /\ AllDefined
    /\ PrevLine = <<>>
    /\ \E i \in 1..(pos - 1) : RStripNewline(input[i]) = NO_NEWLINE
    /\ \E i \in 1..(pos - 1) : StartsWith(RStripNewline(input[i]), OLD_PATH)

----------------------------------------------------------------------------
(* C18 *)

\* the line at pos is a context line: not empty, taken by no header rule, no
\* no-newline marker, and starting with neither + nor -
IsContextLine ==
    /\ Line # <<>>
    /\ ~IsHeaderLine(Line)
    /\ ~StartsWith(Line, NO_NEWLINE)
    /\ ~StartsWith(Line, <<"+">>)
    /\ ~StartsWith(Line, <<"-">>)

\* C18: with cur_file and both counters defined, a context line yields no record
\* and raises old_line and new_line by one each.
C18_ContextAdvancesBoth ==
    [][ConsumesLine /\ AllDefined /\ IsContextLine =>
         /\ out' = out
         /\ old_line' = Some(Get(old_line) + 1)
         /\ new_line' = Some(Get(new_line) + 1)
         /\ UNCHANGED cur_file]_vars

\* a context line has been consumed inside a hunk after a record, and the record
\* that follows it has been yielded with the number the context line moved on
C18_Witness ==
    /\ pc = "scan"
    /\ pos >= 4
    /\ AllDefined
    /\ LET l == RStripNewline(input[pos - 3])
       IN  l # <<>> /\ ~IsHeaderLine(l) /\ l[1] = " "
    /\ StartsWith(PrevLine, <<"+">>)
    /\ Len(out) >= 2
    /\ out[Len(out)].type = "add"
    /\ out[Len(out)].line = Some(2)

----------------------------------------------------------------------------
(* C12 *)

\* the records iter_changes yields for the diff of each commit of the model
RecordsOfCommit == [name \in CommitNames |-> IterChanges(DiffLines(Commit(name).diff))]

\* the commit has a diff and the diff yields no record
YieldsNoRecord(name) == ~Commit(name).raises /\ RecordsOfCommit[name] = <<>>

\* the items of one kind, in their order
ItemsOfKind(items, kind) == SelectSeq(items, LAMBDA it : it.kind = kind)

\* the headings of those among the first k commits whose diff yields records
HeadingsUpTo(k) ==
    LET with == SelectSeq(SubSeq(commits, 1, k), LAMBDA name : RecordsOfCommit[name] # <<>>)
    IN  [i \in 1..Len(with) |-> HeadingItem(Commit(with[i]))]

\* C12: a commit whose diff yields no record adds nothing to the change log, no
\* heading, no file block and no fence, and is no error; the commits that yield
\* records appear in the order they were given.
C12_CommitsWithoutRecordsSkipped ==
    /\ [](hpc \in {"loop", "done"} =>
             ItemsOfKind(hist_out, "heading") = HeadingsUpTo(ci - 1))
    /\ [][1 <= ci /\ ci <= Len(commits) /\ YieldsNoRecord(commits[ci]) =>
             /\ hist_out' = hist_out
             /\ hpc' # "raised"]_vars

\* the file is written for three commits of which the second yields no record
\* and the two others, different ones, do
C12_Witness ==
    /\ written # None
    /\ Len(commits) = 3
    /\ RecordsOfCommit[commits[1]] # <<>>
    /\ YieldsNoRecord(commits[2])
    /\ RecordsOfCommit[commits[3]] # <<>>
    /\ commits[1] # commits[3]
    /\ Len(ItemsOfKind(Get(written), "heading")) = 2

----------------------------------------------------------------------------
(* C19 *)

\* the numbers of a set of line numbers, in rising order
Rising(S) ==
    CHOOSE f \in [1..Cardinality(S) -> S] :
        \A a, b \in 1..Cardinality(S) : a < b => f[a] < f[b]

\* the files of the records, each once, in the order of their first record
FilesByFirstRecord(changes) ==
    LET firsts == Rising({ i \in 1..Len(changes) :
                            \A j \in 1..(i - 1) : changes[j].file # changes[i].file })
    IN  [k \in 1..Len(firsts) |-> changes[firsts[k]].file]

\* the file blocks the claim describes for the records of one commit
BlocksAsStated(changes) ==
    LET files == FilesByFirstRecord(changes)
        of(f) == SelectSeq(changes, LAMBDA ch : ch.file = f)
    IN  Flatten([k \in 1..Len(files) |->
                    <<FileItem(Get(files[k])), FenceOpenItem>>
                    \o [i \in 1..Len(of(files[k])) |-> ChangeItem(of(files[k])[i])]])

\* what out has received since the heading of the commit at hand
ItemsOfCommit ==
    LET h == Latest({ i \in 1..Len(hist_out) : hist_out[i].kind = "heading" })
    IN  SubSeq(hist_out, h + 1, Len(hist_out))

\* C19: when the files of a commit have been rendered, they stand in the order of
\* their first record, the records of one file in the order iter_changes yielded
\* them, and every record stands there exactly once.
C19_GroupedByFileInOrder ==
    hpc = "files" /\ fi > Len(by_file) => ItemsOfCommit = BlocksAsStated(Get(last))

\* all files of a commit are rendered whose records of one file come in two runs,
\* with a record of another file between them
C19_Witness ==
    /\ hpc = "files"
    /\ fi > Len(by_file)
    /\ Len(by_file) >= 2
    /\ LET changes == Get(last)
       IN  \E i, j, k \in 1..Len(changes) :
               /\ i < j /\ j < k
               /\ changes[i].file = changes[k].file
               /\ changes[i].file # changes[j].file

----------------------------------------------------------------------------
(* C20 *)

IsOpeningFence(it) == it.kind = "fence" /\ it.text = FENCE_OPEN

IsClosingFence(it) == it.kind = "fence" /\ it.text = FENCE_CLOSE

\* C20: in the change log every opening fence of a file block is followed by a
\* closing fence of its own before the next file block or heading, so that as
\* many fences close as open.
C20_FencesBalancedAsStated ==
    hpc \in {"loop", "done"} =>
        /\ \A i \in 1..Len(hist_out) :
               IsOpeningFence(hist_out[i]) =>
                   \E j \in (i + 1)..Len(hist_out) :
                       /\ IsClosingFence(hist_out[j])
                       /\ \A k \in (i + 1)..(j - 1) : hist_out[k].kind = "change"
        /\ Cardinality({ i \in 1..Len(hist_out) : IsOpeningFence(hist_out[i]) })
             = Cardinality({ i \in 1..Len(hist_out) : IsClosingFence(hist_out[i]) })

====
